---- MODULE Spec2Model ----
(***************************************************************************)
(* Model of app.py: the area extraction from a property description        *)
(* (extract_area_logic), the configuration classifier (determine_config)   *)
(* and the Streamlit script that derives the per-record columns, builds    *)
(* the summary, looks every property up on MahaRERA and writes the report. *)
(*                                                                         *)
(* Numbers.  Python floats are modelled in fixed point:                    *)
(*   - a quantity written in a description is an integer number of 1e-4    *)
(*     units (four decimals), so that round(..., 3) has something to do;   *)
(*   - every rounded column (areas, APR) is an integer number of 1e-3      *)
(*     units ("milli");                                                    *)
(*   - the loading factor is an integer number of hundredths.              *)
(* Products are split so that no intermediate value leaves 32 bits.        *)
(* round() is modelled as rounding to the nearest, ties to even; Python     *)
(* rounds the binary float, so an exact decimal tie may go either way      *)
(* there.  The numbers used below never produce a tie.                     *)
(*                                                                         *)
(* Text.  A description is modelled after tokenisation: a sequence of      *)
(* tokens, each a number followed by a unit, or a word.  Line 99's         *)
(* whitespace and comma normalisation does not change which number+unit    *)
(* pairs match (the pattern allows \s* itself) nor whether a keyword       *)
(* occurs in a context, so a token sequence stands for the normalised text.*)
(***************************************************************************)
EXTENDS Integers, Sequences, FiniteSets, TLC

VARIABLES
    \* a call of extract_area_logic on its own
    arg_text,       \* the argument
    ret_area,       \* the returned area, in milli sq.m
    called,         \* whether the call has returned
    \* a call of determine_config on its own
    arg_area,       \* the argument
    ret_config,     \* the returned label
    classified,     \* whether the call has returned
    \* the sidebar
    loading,        \* "Loading Factor", in hundredths
    t1, t2, t3,     \* "1 BHK <", "2 BHK <", "3 BHK <"
    show_extra,     \* "Fetch Live RERA Data"
    \* the script
    pc,             \* where the script stands
    columns,        \* df.columns: the uploaded sheet's column names, in order
    rows,           \* the uploaded records
    desc, cons, prop,   \* the three looked-up column names, or None
    df,             \* the derived columns, one record per uploaded record
    summary,        \* the summary rows
    todo,           \* unique_projects not yet looked up
    project_map,    \* property -> the five RERA values
    rera_calls,     \* history: the properties fetch_rera_details was called with
    raw_sheet,      \* the rows written to the 'Raw Data' sheet
    summary_sheet,  \* the rows written to the 'Summary' sheet
    shown           \* what the page shows to the user

area_vars == <<arg_text, ret_area, called>>
config_vars == <<arg_area, ret_config, classified>>
sidebar_vars == <<loading, t1, t2, t3, show_extra>>
script_vars == <<pc, columns, rows, desc, cons, prop, df, summary, todo,
                 project_map, rera_calls, raw_sheet, summary_sheet, shown>>
vars == <<area_vars, config_vars, sidebar_vars, script_vars>>

----------------------------------------------------------------------------
(* Bounds of the model *)

\* longest description, in tokens
MaxLen == 4
\* most records in an uploaded sheet
MaxRows == 2

----------------------------------------------------------------------------
(* Tokens of a description *)

\* a number followed by a unit; v is the number in 1e-4 units
Qty(v, unit) == [unit |-> unit, v |-> v, w |-> ""]
\* any other piece of text
Word(w) == [unit |-> "", v |-> 0, w |-> w]

\* the numbers that appear in descriptions: 0, 10, 20, 25.0004, 45, 500
MetricNumbers == {0, 100000, 200000, 250004, 450000, 5000000}
\* 484.38 (sq.ft), which is 45 sq.m
ImperialNumbers == {4843800}

Tokens ==
    {Qty(v, "sq.m") : v \in MetricNumbers}
    \cup {Qty(v, "sq.ft") : v \in ImperialNumbers}
    \cup {Word(w) : w \in {"parking", "Parking", "paarkinga", "total area"}}

\* a cell of the description column: missing (NaN) or a text
NaNCell == [na |-> TRUE, toks |-> <<>>]
Text(toks) == [na |-> FALSE, toks |-> toks]

RECURSIVE SeqsUpTo(_, _)
SeqsUpTo(S, n) ==
    IF n = 0 THEN {<<>>}
    ELSE LET shorter == SeqsUpTo(S, n - 1)
         IN shorter \cup {Append(s, x) : s \in {t \in shorter : Len(t) = n - 1}, x \in S}

Descriptions == {NaNCell} \cup {Text(s) : s \in SeqsUpTo(Tokens, MaxLen)}

----------------------------------------------------------------------------
(* Numeric helpers *)

RECURSIVE SumSeq(_)
SumSeq(s) == IF s = <<>> THEN 0 ELSE Head(s) + SumSeq(Tail(s))

\* round(n / d) for n >= 0, d > 0, ties to the even neighbour
RoundDiv(n, d) ==
    LET q == n \div d
        r == n % d
    IN IF 2 * r < d THEN q
       ELSE IF 2 * r > d THEN q + 1
       ELSE IF q % 2 = 0 THEN q ELSE q + 1

\* round(x, 3) of a value held in 1e-4 units; the result is in milli units
Round3(x4) == RoundDiv(x4, 10)

----------------------------------------------------------------------------
(* extract_area_logic *)

\* str.lower() of a token
Lower(tok) == IF tok.w \in {"Parking", "PARKING"} THEN Word("parking") ELSE tok

\* the two Devanagari spellings are written in Latin letters here
ParkingWords == {"paarkinga", "paarkiinga", "parking"}

\* the pattern (\d+\.?\d*)\s*{m_unit} matches this token
MatchesMUnit(tok) == tok.unit = "sq.m"

\* re.split with one capture group: contexts at the odd places, the captured
\* numbers at the even places (Python's m_segments[i] is m_segments[i + 1] here)
RECURSIVE SplitFrom(_, _)
SplitFrom(toks, ctx) ==
    IF toks = <<>> THEN <<ctx>>
    ELSE IF MatchesMUnit(Head(toks))
         THEN <<ctx, Head(toks).v>> \o SplitFrom(Tail(toks), <<>>)
         ELSE SplitFrom(Tail(toks), Append(ctx, Head(toks)))

re_split(toks) == SplitFrom(toks, <<>>)

\* any(w in context for w in [...]) on the lower-cased context
HasParking(context) ==
    \E j \in 1..Len(context) : Lower(context[j]).w \in ParkingWords

\* faulty variant: the upper bound taken inclusive: val <= 500
Survives_UpperInclusive(val, context) ==
    /\ 0 < val
    /\ val <= 5000000
    /\ ~HasParking(context)

\* 0 < val < 500 and no parking keyword in the preceding context
Survives(val, context) ==
    /\ 0 < val
    /\ val < 5000000
    /\ ~HasParking(context)

\* the loop of lines 105-108 from place i (an even place) on
RECURSIVE CollectFrom(_, _)
CollectFrom(m_segments, i) ==
    IF i > Len(m_segments) THEN <<>>
    ELSE (IF Survives(m_segments[i], m_segments[i - 1])
          THEN <<m_segments[i]>> ELSE <<>>)
         \o CollectFrom(m_segments, i + 2)

m_vals_of(toks) == CollectFrom(re_split(toks), 2)

extract_area_logic(text) ==
    IF text.na \/ text.toks = <<>> THEN 0
    ELSE LET m_vals == m_vals_of(text.toks)
         IN IF m_vals # <<>> THEN Round3(SumSeq(m_vals)) ELSE 0

----------------------------------------------------------------------------
(* determine_config *)

\* faulty variant: the band limits taken inclusive
determine_config_Inclusive(area, a, b, c) ==
    IF area = 0 THEN "N/A"
    ELSE IF area <= a THEN "1 BHK"
    ELSE IF area <= b THEN "2 BHK"
    ELSE IF area <= c THEN "3 BHK"
    ELSE "4 BHK"

determine_config(area, a, b, c) ==
    IF area = 0 THEN "N/A"
    ELSE IF area < a THEN "1 BHK"
    ELSE IF area < b THEN "2 BHK"
    ELSE IF area < c THEN "3 BHK"
    ELSE "4 BHK"

----------------------------------------------------------------------------
(* The derived columns (lines 163-167) *)

\* round(x * num / den) for x, num >= 0, the product split so that it stays
\* within 32 bits; ties to the even neighbour
ScaleRound(x, num, den) ==
    LET base == x * (num \div den)
        part == x * (num % den)
        q == base + part \div den
        r == part % den
    IN IF 2 * r < den THEN q
       ELSE IF 2 * r > den THEN q + 1
       ELSE IF q % 2 = 0 THEN q ELSE q + 1

\* (df['Carpet Area (SQ.MT)'] * 10.764).round(3), milli sq.m to milli sq.ft
CarpetSqFt(carpet_m) == ScaleRound(carpet_m, 10764, 1000)

\* (df['Carpet Area (SQ.FT)'] * loading).round(3)
SaleableArea(carpet_ft, load) == ScaleRound(carpet_ft, load, 100)

\* k more decimal digits of the quotient q remainder r of a division by d
RECURSIVE LongDiv(_, _, _, _)
LongDiv(q, r, d, k) ==
    IF k = 0 THEN <<q, r>>
    ELSE LongDiv(q * 10 + (r * 10) \div d, (r * 10) % d, d, k - 1)

\* round(consideration / saleable, 3) in milli units, for a consideration in
\* whole units and a saleable area in milli units: round(c * 10^6 / s)
RoundedRate(c, s) ==
    LET qr == LongDiv(c \div s, c % s, s, 6)
    IN IF 2 * qr[2] < s THEN qr[1]
       ELSE IF 2 * qr[2] > s THEN qr[1] + 1
       ELSE IF qr[1] % 2 = 0 THEN qr[1] ELSE qr[1] + 1

\* faulty variant: the quotient cut off after three decimals instead of rounded
APR_Truncated(c, saleable) ==
    IF saleable > 0 THEN LongDiv(c \div saleable, c % saleable, saleable, 6)[1] ELSE 0

\* round(r[cons] / r['Saleable Area'], 3) if r['Saleable Area'] > 0 else 0
APR(c, saleable) ==
    IF saleable > 0 THEN RoundedRate(c, saleable) ELSE 0

\* the five derived columns of one record
Derive(r, load, a, b, c) ==
    LET carpet_m == extract_area_logic(r.desc)
        carpet_ft == CarpetSqFt(carpet_m)
        saleable == SaleableArea(carpet_ft, load)
    IN [carpet_m |-> carpet_m,
        carpet_ft |-> carpet_ft,
        saleable |-> saleable,
        apr |-> APR(r.cons, saleable),
        config |-> determine_config(carpet_ft, a, b, c)]

----------------------------------------------------------------------------
(* The uploaded sheet *)

None == "<None>"
NaN == "<NaN>"

\* the column names a sheet may carry, in the order of the sheet
SheetColumns == <<" Property Description ", "CONSIDERATION VALUE", "Property">>

\* c.lower().strip()
CleanName(c) ==
    CASE c = " Property Description " -> "property description"
      [] c = "CONSIDERATION VALUE" -> "consideration value"
      [] c = "Property" -> "property"
      [] OTHER -> c

\* {c.lower().strip(): c for c in df.columns}.get(key): the last column whose
\* cleaned name is the key, None when there is none
clean_cols_get(cols, key) ==
    LET hits == {i \in 1..Len(cols) : CleanName(cols[i]) = key}
    IN IF hits = {} THEN None
       ELSE cols[CHOOSE i \in hits : \A j \in hits : j <= i]

\* the truth value of a looked-up column name
Truthy(x) == x # None /\ x # ""

\* the subsequence of s at the places in keep
RECURSIVE Pick(_, _, _)
Pick(s, keep, i) ==
    IF i > Len(s) THEN <<>>
    ELSE (IF i \in keep THEN <<s[i]>> ELSE <<>>) \o Pick(s, keep, i + 1)

ColumnLists == {Pick(SheetColumns, keep, 1) : keep \in SUBSET (1..Len(SheetColumns))}

\* the descriptions of the uploaded records: a missing cell, "45 sq.m",
\* "20 sq.m 45 sq.m" and "parking 20 sq.m"
SheetDescriptions ==
    {NaNCell,
     Text(<<Qty(450000, "sq.m")>>),
     Text(<<Qty(200000, "sq.m"), Qty(450000, "sq.m")>>),
     Text(<<Word("parking"), Qty(200000, "sq.m")>>)}

Considerations == {0, 2000}
PropertyNames == <<"Alpha", "Beta">>
PropertyCells == {PropertyNames[i] : i \in 1..Len(PropertyNames)} \cup {NaN}

Records == [desc : SheetDescriptions, cons : Considerations, prop : PropertyCells]

Sheets == UNION {[1..n -> Records] : n \in 0..MaxRows}

----------------------------------------------------------------------------
(* The summary (lines 169-175) *)

ConfigLabels == <<"1 BHK", "2 BHK", "3 BHK", "4 BHK", "N/A">>

IndexIn(s, x) == CHOOSE i \in 1..Len(s) : s[i] = x

RECURSIVE SetToSeq(_)
SetToSeq(S) ==
    IF S = {} THEN <<>>
    ELSE LET x == CHOOSE y \in S : TRUE IN <<x>> \o SetToSeq(S \ {x})

\* the grouping key of record i: property, configuration, carpet area
KeyOf(rs, d, i) == <<rs[i].prop, d[i].config, d[i].carpet_ft>>

\* the order of sort_values and of the groups: property, then configuration,
\* then carpet area
KeyLess(k, l) ==
    LET pk == IndexIn(PropertyNames, k[1])
        pl == IndexIn(PropertyNames, l[1])
        ck == IndexIn(ConfigLabels, k[2])
        cl == IndexIn(ConfigLabels, l[2])
    IN \/ pk < pl
       \/ pk = pl /\ ck < cl
       \/ pk = pl /\ ck = cl /\ k[3] < l[3]

\* df[df['Carpet Area (SQ.FT)'] > 0]
ValidRows(d) == {i \in 1..Len(d) : d[i].carpet_ft > 0}

\* the records groupby puts in a group: a record whose key holds a missing
\* value (a blank property cell) is dropped, as pandas' groupby does by default
GroupedRows(rs, d) == {i \in ValidRows(d) : rs[i].prop # NaN}

\* the APR values of a set of records, ascending
SortedAPR(d, members) ==
    SortSeq([j \in 1..Cardinality(members) |-> d[SetToSeq(members)[j]].apr],
            LAMBDA x, y : x < y)

\* x.mode().iloc[0]: the most frequent value, the smallest one on a tie
ModeOf(s) ==
    LET count(v) == Cardinality({j \in 1..Len(s) : s[j] = v})
        values == {s[j] : j \in 1..Len(s)}
        best == {v \in values : \A u \in values : count(u) <= count(v)}
    IN IF values = {} THEN 0 ELSE CHOOSE v \in best : \A u \in best : v <= u

\* one summary row; the mean and the median are kept as fractions <<n, d>>
SummaryRow(rs, d, key) ==
    LET members == {i \in GroupedRows(rs, d) : KeyOf(rs, d, i) = key}
        aprs == SortedAPR(d, members)
        n == Len(aprs)
    IN [Property |-> key[1],
        Configuration |-> key[2],
        CarpetSqFt |-> key[3],
        MinAPR |-> aprs[1],
        MaxAPR |-> aprs[n],
        AvgAPR |-> <<SumSeq(aprs), n>>,
        MedianAPR |-> <<aprs[(n + 1) \div 2] + aprs[(n + 2) \div 2], 2>>,
        ModeAPR |-> ModeOf(aprs),
        Count |-> n,
        extra |-> <<>>]

Summarise(rs, d) ==
    LET keys == SortSeq(SetToSeq({KeyOf(rs, d, i) : i \in GroupedRows(rs, d)}), KeyLess)
    IN [j \in 1..Len(keys) |-> SummaryRow(rs, d, keys[j])]

\* summary['Property'].unique(): the properties in order of first appearance
RECURSIVE UniqueFrom(_, _, _)
UniqueFrom(s, i, seen) ==
    IF i > Len(s) THEN <<>>
    ELSE IF s[i].Property \in seen THEN UniqueFrom(s, i + 1, seen)
    ELSE <<s[i].Property>> \o UniqueFrom(s, i + 1, seen \cup {s[i].Property})

unique_projects(s) == UniqueFrom(s, 1, {})

----------------------------------------------------------------------------
(* fetch_rera_details *)

\* what the MahaRERA site and the browser do during one call:
\*   raises      a selenium call inside the try block raises
\*   view_links  the number of 'View Details' links found
\*   possession  the completion date cell, "N/A" when get_text does not find it
\*   tower_rows  rows of the BuildingDetails table
\*   units, floors   the sum of the unit cells, the largest floor cell
\*   amn_rows    rows of the development work table
SiteBehaviours ==
    {[raises |-> TRUE, view_links |-> 0, possession |-> "N/A", tower_rows |-> 0,
      units |-> 0, floors |-> 0, amn_rows |-> 0],
     [raises |-> FALSE, view_links |-> 0, possession |-> "N/A", tower_rows |-> 0,
      units |-> 0, floors |-> 0, amn_rows |-> 0],
     [raises |-> FALSE, view_links |-> 1, possession |-> "31/12/2027", tower_rows |-> 3,
      units |-> 120, floors |-> 12, amn_rows |-> 8],
     [raises |-> FALSE, view_links |-> 2, possession |-> "N/A", tower_rows |-> 1,
      units |-> 0, floors |-> 0, amn_rows |-> 1]}

Repeat5(x) == <<x, x, x, x, x>>

\* lines 65-90: the five values read off the project's page
PageDetails(site) ==
    LET possession == site.possession
        towers == IF site.tower_rows > 1 THEN ToString(site.tower_rows - 1) ELSE "N/A"
        units == IF site.units > 0 THEN ToString(site.units) ELSE "N/A"
        floors == IF site.floors > 0 THEN "G+" \o ToString(site.floors) ELSE "N/A"
        amenities == IF site.amn_rows > 1 THEN ToString(site.amn_rows) \o "+" ELSE "N/A"
    IN <<amenities, towers, floors, units, possession>>

\* faulty variant: the except branch returns one placeholder instead of five
fetch_rera_details_OnePlaceholder(project_name, site) ==
    IF site.raises THEN <<"Not Found">>
    ELSE IF site.view_links = 0 THEN Repeat5("N/A")
    ELSE PageDetails(site)

fetch_rera_details(project_name, site) ==
    IF site.raises THEN Repeat5("Not Found")
    ELSE IF site.view_links = 0 THEN Repeat5("N/A")
    ELSE PageDetails(site)

----------------------------------------------------------------------------
(* The script, from the upload on (lines 156-200) *)

AreaIdle == arg_text = NaNCell /\ ret_area = 0 /\ called = FALSE
ConfigIdle == arg_area = 0 /\ ret_config = "" /\ classified = FALSE

\* the sidebar's defaults: value=1.35, value=600, value=850, value=1100
SidebarDefaults ==
    /\ loading = 135
    /\ t1 = 600000
    /\ t2 = 850000
    /\ t3 = 1100000

ScriptStart ==
    /\ pc = "upload"
    /\ columns = <<>>
    /\ rows = <<>>
    /\ desc = None /\ cons = None /\ prop = None
    /\ df = <<>>
    /\ summary = <<>>
    /\ todo = <<>>
    /\ project_map = <<>>
    /\ rera_calls = <<>>
    /\ raw_sheet = <<>>
    /\ summary_sheet = <<>>
    /\ shown = {}

\* the loading factors tried: the default 1.35, and 0 (the input has no minimum)
LoadingFactors == {0, 135}

Init ==
    /\ AreaIdle
    /\ ConfigIdle
    /\ loading \in LoadingFactors
    /\ t1 = 600000
    /\ t2 = 850000
    /\ t3 = 1100000
    /\ show_extra \in BOOLEAN
    /\ ScriptStart

\* lines 156-161: the sheet is read, the three columns are looked up, and the
\* script goes on only if all three were found; there is no else branch
ReadExcel ==
    /\ pc = "upload"
    /\ \E cols \in ColumnLists, rs \in Sheets :
        /\ columns' = cols
        /\ rows' = rs
        /\ desc' = clean_cols_get(cols, "property description")
        /\ cons' = clean_cols_get(cols, "consideration value")
        /\ prop' = clean_cols_get(cols, "property")
    /\ pc' = IF Truthy(desc') /\ Truthy(cons') /\ Truthy(prop') THEN "calculate" ELSE "done"
    /\ UNCHANGED <<df, summary, todo, project_map, rera_calls, raw_sheet,
                   summary_sheet, shown>>
    /\ UNCHANGED <<area_vars, config_vars, sidebar_vars>>

\* lines 162-167: the five derived columns
CalculateArea ==
    /\ pc = "calculate"
    /\ df' = [i \in 1..Len(rows) |-> Derive(rows[i], loading, t1, t2, t3)]
    /\ pc' = "summarise"
    /\ UNCHANGED <<columns, rows, desc, cons, prop, summary, todo, project_map,
                   rera_calls, raw_sheet, summary_sheet, shown>>
    /\ UNCHANGED <<area_vars, config_vars, sidebar_vars>>

\* lines 169-175
BuildSummary ==
    /\ pc = "summarise"
    /\ summary' = Summarise(rows, df)
    /\ pc' = "branch"
    /\ UNCHANGED <<columns, rows, desc, cons, prop, df, todo, project_map,
                   rera_calls, raw_sheet, summary_sheet, shown>>
    /\ UNCHANGED <<area_vars, config_vars, sidebar_vars>>

\* lines 177-179
BeginLookups ==
    /\ pc = "branch"
    /\ show_extra
    /\ todo' = unique_projects(summary)
    /\ project_map' = <<>>
    /\ pc' = "lookup"
    /\ UNCHANGED <<columns, rows, desc, cons, prop, df, summary, rera_calls,
                   raw_sheet, summary_sheet, shown>>
    /\ UNCHANGED <<area_vars, config_vars, sidebar_vars>>

\* lines 180-182: one turn of the loop
LookupNext ==
    /\ pc = "lookup"
    /\ todo # <<>>
    /\ \E site \in SiteBehaviours :
        project_map' = [p \in DOMAIN project_map \cup {Head(todo)} |->
                           IF p = Head(todo) THEN fetch_rera_details(Head(todo), site)
                           ELSE project_map[p]]
    /\ rera_calls' = Append(rera_calls, Head(todo))
    /\ todo' = Tail(todo)
    /\ UNCHANGED <<pc, columns, rows, desc, cons, prop, df, summary, raw_sheet,
                   summary_sheet, shown>>
    /\ UNCHANGED <<area_vars, config_vars, sidebar_vars>>

\* lines 184-186: the five columns are added to the summary
AddExtraColumns ==
    /\ pc = "lookup"
    /\ todo = <<>>
    /\ summary' = [j \in 1..Len(summary) |->
                      [summary[j] EXCEPT !.extra = project_map[summary[j].Property]]]
    /\ pc' = "write"
    /\ UNCHANGED <<columns, rows, desc, cons, prop, df, todo, project_map,
                   rera_calls, raw_sheet, summary_sheet, shown>>
    /\ UNCHANGED <<area_vars, config_vars, sidebar_vars>>

\* lines 188-196: both sheets are written
WriteReport ==
    /\ \/ pc = "branch" /\ ~show_extra
       \/ pc = "write"
    /\ raw_sheet' = [i \in 1..Len(rows) |-> [record |-> rows[i], derived |-> df[i]]]
    /\ summary_sheet' = summary
    /\ pc' = "show"
    /\ UNCHANGED <<columns, rows, desc, cons, prop, df, summary, todo, project_map,
                   rera_calls, shown>>
    /\ UNCHANGED <<area_vars, config_vars, sidebar_vars>>

\* lines 198-200
ShowResult ==
    /\ pc = "show"
    /\ shown' = {"Analysis Complete!", "summary", "Download Excel"}
    /\ pc' = "done"
    /\ UNCHANGED <<columns, rows, desc, cons, prop, df, summary, todo, project_map,
                   rera_calls, raw_sheet, summary_sheet>>
    /\ UNCHANGED <<area_vars, config_vars, sidebar_vars>>

Next ==
    \/ ReadExcel
    \/ CalculateArea
    \/ BuildSummary
    \/ BeginLookups
    \/ LookupNext
    \/ AddExtraColumns
    \/ WriteReport
    \/ ShowResult

Spec == Init /\ [][Next]_vars

----------------------------------------------------------------------------
(* determine_config on its own: one call on any area and thresholds *)

AreaSamples == {0, 1, 599, 600, 849, 850, 1099, 1100, 1101}
ThresholdSamples == {0, 1, 600, 850, 1100}

InitConfig ==
    /\ arg_area \in AreaSamples
    /\ t1 \in ThresholdSamples
    /\ t2 \in ThresholdSamples
    /\ t3 \in ThresholdSamples
    /\ t1 < t2
    /\ t2 < t3
    /\ ret_config = ""
    /\ classified = FALSE
    /\ loading = 135
    /\ show_extra = FALSE
    /\ AreaIdle
    /\ ScriptStart

CallDetermineConfig ==
    /\ ~classified
    /\ ret_config' = determine_config(arg_area, t1, t2, t3)
    /\ classified' = TRUE
    /\ UNCHANGED <<arg_area, area_vars, sidebar_vars, script_vars>>

NextConfig == CallDetermineConfig

SpecConfig == InitConfig /\ [][NextConfig]_vars

----------------------------------------------------------------------------
(* The area function on its own: one call on any description *)

InitArea ==
    /\ arg_text \in Descriptions
    /\ ret_area = 0
    /\ called = FALSE
    /\ ConfigIdle
    /\ SidebarDefaults
    /\ show_extra = FALSE
    /\ ScriptStart

CallExtract ==
    /\ ~called
    /\ ret_area' = extract_area_logic(arg_text)
    /\ called' = TRUE
    /\ UNCHANGED <<arg_text, config_vars, sidebar_vars, script_vars>>

NextArea == CallExtract

SpecArea == InitArea /\ [][NextArea]_vars

----------------------------------------------------------------------------
(* Properties of determine_config *)

\* C5 as stated: for t1 < t2 < t3 and area >= 0 the label is the sentinel iff
\* area = 0, 1 BHK iff 0 < area < t1, 2 BHK iff t1 <= area < t2, 3 BHK iff
\* t2 <= area < t3, 4 BHK iff area >= t3.
C5_BandsAsStated ==
    classified =>
        /\ ret_config \in {"N/A", "1 BHK", "2 BHK", "3 BHK", "4 BHK"}
        /\ ret_config = "N/A" <=> arg_area = 0
        /\ ret_config = "1 BHK" <=> (0 < arg_area /\ arg_area < t1)
        /\ ret_config = "2 BHK" <=> (t1 <= arg_area /\ arg_area < t2)
        /\ ret_config = "3 BHK" <=> (t2 <= arg_area /\ arg_area < t3)
        /\ ret_config = "4 BHK" <=> t3 <= arg_area

\* C5 amended: area 0 gives the sentinel whatever the thresholds are, and the
\* four bands are those of the areas above 0: 1 BHK iff 0 < area < t1, 2 BHK
\* iff area > 0 and t1 <= area < t2, 3 BHK iff area > 0 and t2 <= area < t3,
\* 4 BHK iff area > 0 and area >= t3.
C5_BandsOfPositiveAreas ==
    classified =>
        /\ ret_config \in {"N/A", "1 BHK", "2 BHK", "3 BHK", "4 BHK"}
        /\ ret_config = "N/A" <=> arg_area = 0
        /\ ret_config = "1 BHK" <=> (0 < arg_area /\ arg_area < t1)
        /\ ret_config = "2 BHK" <=> (0 < arg_area /\ t1 <= arg_area /\ arg_area < t2)
        /\ ret_config = "3 BHK" <=> (0 < arg_area /\ t2 <= arg_area /\ arg_area < t3)
        /\ ret_config = "4 BHK" <=> (0 < arg_area /\ t3 <= arg_area)

\* an area on a band limit, classified into the upper band
C5_Witness ==
    /\ classified
    /\ t1 = 600 /\ t2 = 850 /\ t3 = 1100
    /\ arg_area = 850
    /\ ret_config = "3 BHK"

----------------------------------------------------------------------------
(* Properties of the script *)

RequiredColumnsPresent ==
    \A key \in {"property description", "consideration value", "property"} :
        \E i \in 1..Len(columns) : CleanName(columns[i]) = key

\* the derived columns have been computed
Derived ==
    /\ RequiredColumnsPresent
    /\ pc \in {"summarise", "branch", "lookup", "write", "show", "done"}

\* C6: every record's APR is consideration / saleable area rounded to 3
\* decimals when the saleable area is above 0 and exactly 0 otherwise, and a
\* record with no saleable area does not stop the run;
\* rate(9000000, 0) = 0 and rate(9000000, 1000) = 9000.
C6_RateOrZero ==
    /\ APR(9000000, 0) = 0
    /\ APR(9000000, 1000000) = 9000000
    /\ Derived =>
        /\ Len(df) = Len(rows)
        /\ \A i \in 1..Len(df) :
            LET s == df[i].saleable
                gap == df[i].apr * s - rows[i].cons * 1000000
            IN IF s > 0 THEN 2 * gap <= s /\ -2 * gap <= s
               ELSE df[i].apr = 0

\* a finished run over a record without saleable area and a record whose rate
\* had to be rounded up
C6_Witness ==
    /\ pc = "done"
    /\ shown # {}
    /\ \E i \in 1..Len(df) :
           df[i].carpet_m = 0 /\ df[i].saleable = 0 /\ rows[i].cons > 0
    /\ \E i \in 1..Len(df) :
           /\ df[i].saleable > 0
           /\ df[i].apr * df[i].saleable > rows[i].cons * 1000000

\* C7: with a required column absent nothing is derived or aggregated, and
\* the user is told which columns the sheet has.
C7_MissingColumnReported ==
    (pc = "done" /\ ~RequiredColumnsPresent) =>
        /\ df = <<>>
        /\ summary = <<>>
        /\ raw_sheet = <<>>
        /\ shown # {}

LoopOver ==
    /\ show_extra
    /\ \/ pc = "lookup" /\ todo = <<>>
       \/ pc \in {"write", "show", "done"}

\* C8: after the lookup loop every unique property of the summary has an
\* entry of exactly 5 values in project_map, whether its lookup failed or not,
\* and fetch_rera_details was called for each of them, in order.
C8_LoopCompletes ==
    LoopOver =>
        /\ \A j \in 1..Len(summary) :
            /\ summary[j].Property \in DOMAIN project_map
            /\ Len(project_map[summary[j].Property]) = 5
        /\ rera_calls = unique_projects(summary)
        /\ DOMAIN project_map = {rera_calls[k] : k \in 1..Len(rera_calls)}

\* the first property's lookup failed and the second one's went through
C8_Witness ==
    /\ LoopOver
    /\ pc = "done"
    /\ rera_calls = <<"Alpha", "Beta">>
    /\ project_map["Alpha"] = Repeat5("Not Found")
    /\ project_map["Beta"] = <<"8+", "2", "G+12", "120", "31/12/2027">>

\* C9: every uploaded record is once in the 'Raw Data' rows, every record with
\* a carpet area above 0 is counted in exactly one summary group, and the
\* group counts add up to the number of such records.
C9_SummaryCountsAll ==
    pc = "done" /\ RequiredColumnsPresent =>
        LET positive == {i \in 1..Len(df) : df[i].carpet_m > 0}
            groups(i) == {j \in 1..Len(summary_sheet) :
                             /\ summary_sheet[j].Property = rows[i].prop
                             /\ summary_sheet[j].Configuration = df[i].config
                             /\ summary_sheet[j].CarpetSqFt = df[i].carpet_ft}
        IN /\ Len(raw_sheet) = Len(rows)
           /\ \A i \in 1..Len(rows) : raw_sheet[i].record = rows[i]
           /\ \A i \in positive : Cardinality(groups(i)) = 1
           /\ SumSeq([j \in 1..Len(summary_sheet) |-> summary_sheet[j].Count])
                  = Cardinality(positive)

----------------------------------------------------------------------------
(* Properties of extract_area_logic.  The operators of this section state   *)
(* what the specification says of a description, place by place, without   *)
(* going through the split of the code.                                    *)

AllParkingSpellings == {"parking", "Parking", "PARKING", "paarkinga", "paarkiinga"}

\* the last place before i that holds a quantity of the unit system (0: none)
PrevQty(toks, unit, i) ==
    LET before == {j \in 1..(i - 1) : toks[j].unit = unit}
    IN IF before = {} THEN 0 ELSE CHOOSE j \in before : \A k \in before : k <= j

\* the places of the quantities of a unit system that survive filtering:
\* 0 < v < bound, and no parking keyword since the previous quantity
KeptPlaces(toks, unit, bound) ==
    {i \in 1..Len(toks) :
        /\ toks[i].unit = unit
        /\ 0 < toks[i].v
        /\ toks[i].v < bound
        /\ \A j \in (PrevQty(toks, unit, i) + 1)..(i - 1) :
               toks[j].w \notin AllParkingSpellings}

RECURSIVE SumPlaces(_, _)
SumPlaces(toks, places) ==
    IF places = {} THEN 0
    ELSE LET i == CHOOSE x \in places : TRUE
         IN toks[i].v + SumPlaces(toks, places \ {i})

MetricKept(toks) == KeptPlaces(toks, "sq.m", 5000000)
ImperialKept(toks) == KeptPlaces(toks, "sq.ft", 50000000)

\* an explicit declaration: the total keyword, then a number with a metric unit
TotalDeclaredAt(toks) ==
    {i \in 1..(Len(toks) - 1) :
        toks[i].w = "total area" /\ toks[i + 1].unit = "sq.m"}

\* C10: extract_area_logic returns 0.0 for a missing or empty text, and
\* otherwise the sum, rounded to 3 decimals, of exactly the metric quantities
\* v with 0 < v < 500 whose preceding context segment holds no parking
\* keyword (0.0 when none survives).
C10_SumOfSurvivingMetric ==
    called =>
        IF arg_text.na \/ arg_text.toks = <<>> THEN ret_area = 0
        ELSE LET total == SumPlaces(arg_text.toks, MetricKept(arg_text.toks))
             IN /\ 10 * ret_area - total \in -5..5
                /\ (MetricKept(arg_text.toks) = {} => ret_area = 0)

\* a call that kept two quantities, dropped one that follows a parking
\* keyword, and rounded the sum
C10_Witness ==
    /\ called
    /\ ~arg_text.na
    /\ Cardinality(MetricKept(arg_text.toks)) = 2
    /\ \E i \in 1..Len(arg_text.toks) :
           /\ arg_text.toks[i].unit = "sq.m"
           /\ arg_text.toks[i].v \in 1..4999999
           /\ i \notin MetricKept(arg_text.toks)
    /\ SumPlaces(arg_text.toks, MetricKept(arg_text.toks)) = 450004
    /\ ret_area = 45000

\* C1: with 2 or more surviving metric quantities, no declared total, and the
\* last within 1.0 of the sum of the others, the last alone is returned.
C1_PrecomputedSubtotal ==
    LET m_vals == m_vals_of(arg_text.toks)
        n == Len(m_vals)
    IN (/\ called
        /\ ~arg_text.na
        /\ n >= 2
        /\ TotalDeclaredAt(arg_text.toks) = {}
        /\ m_vals[n] - SumSeq(SubSeq(m_vals, 1, n - 1)) \in -10000..10000)
       => 10 * ret_area - m_vals[n] \in -5..5

\* C2: with a surviving metric quantity and an explicit total-area
\* declaration, the declared number itself is returned.
C2_DeclaredTotal ==
    LET toks == arg_text.toks
        decl == TotalDeclaredAt(toks)
    IN (/\ called
        /\ ~arg_text.na
        /\ m_vals_of(toks) # <<>>
        /\ decl # {})
       => LET i == CHOOSE x \in decl : \A y \in decl : x <= y
          IN 10 * ret_area - toks[i + 1].v \in -5..5

\* C3: a text holding one metric quantity labelled as parking (the label
\* follows it, as in "10 sq.mt parking, 45 sq.mt total area") and one that is
\* not resolves to the second one only.
C3_ParkingExcluded ==
    LET toks == arg_text.toks
    IN (/\ called
        /\ ~arg_text.na
        /\ Len(toks) >= 3
        /\ toks[1].unit = "sq.m" /\ toks[1].v \in 1..4999999
        /\ toks[2].w \in AllParkingSpellings
        /\ toks[3].unit = "sq.m" /\ toks[3].v \in 1..4999999
        /\ \A i \in 4..Len(toks) : toks[i].unit = "")
       => 10 * ret_area - toks[3].v \in -5..5

\* C4: when no metric quantity survives and an imperial one does, the area is
\* resolved from the imperial quantities and converted (divided by 10.764):
\* it is not 0, and a single surviving imperial quantity is returned converted.
C4_ImperialFallback ==
    LET toks == arg_text.toks
        kept == ImperialKept(toks)
    IN (/\ called
        /\ ~arg_text.na
        /\ MetricKept(toks) = {}
        /\ kept # {})
       => /\ ret_area > 0
          /\ Cardinality(kept) = 1 =>
                 ret_area = RoundDiv(100 * SumPlaces(toks, kept), 10764)

====
